---- MODULE Spec2Model ----
(***************************************************************************)
(* DataPager (src/src/page/pager.rs): a growable vector of fixed-size data *)
(* pages behind one RwLock, a lock-free stack of recyclable links and      *)
(* three atomic counters; and load_from_file of the generated table        *)
(* (src/codegen/src/persist_table/generator/space_serialize.rs).           *)
(*                                                                         *)
(* Offsets and page ids are 0-based as in the source; TLA+ sequences are   *)
(* 1-based, so page p is pages[p + 1] and the byte at offset o is          *)
(* data[o + 1].                                                            *)
(***************************************************************************)
EXTENDS Integers, Sequences, FiniteSets, TLC

----------------------------------------------------------------------------
(* Bounds of the model *)

\* number of threads sharing the pager
NumThreads == 2
\* capacity of a data page in bytes (the const generic of DataPage)
INNER == 2
\* operations called in one run of the concurrent specification
MaxOps == 3
\* operations called in one run of the single-threaded specification
MaxSeqOps == 5
\* inserts called in one run of the insert-only specification
MaxInserts == 5
\* pages of the table file read by load_from_file
MaxFilePages == 3
\* pages of one section (one index, or the data) of a table snapshot
MaxLiveOps == 4
MaxSectionPages == 3
\* secondary indexes of a table
MaxIndexes == 2

Threads == 1..NumThreads

----------------------------------------------------------------------------
(* Values *)

\* PageLink { page_id, offset, length }
PageLink(p, o, n) == [page_id |-> p, offset |-> o, length |-> n]

NoLink == PageLink(0, 0, 0)

\* A row is a tuple of one-byte columns; rows of different length model a
\* row type whose serialized length varies.
RowArgs == {<<1>>, <<2>>, <<1, 2>>}

NoRow == <<>>

\* Links a caller can make up without having got them from insert: one on a
\* page that does not exist in a new pager, one inside page 0.
ForgedLinks == {PageLink(1, 0, 1), PageLink(0, 1, 1)}

\* <Row as StorableRow>::WrappedRow::from_inner / get_inner
from_inner(row) == [inner |-> row]

get_inner(general_row) == general_row.inner

\* Serialization of a wrapped row: column value v is archived as byte v + 1,
\* so that the zero byte of an unwritten page is no column.
to_bytes(general_row) ==
    [i \in 1..Len(general_row.inner) |-> general_row.inner[i] + 1]

ValidBytes(bytes) == \A i \in 1..Len(bytes) : bytes[i] \in 2..3

from_bytes(bytes) == [inner |-> [i \in 1..Len(bytes) |-> bytes[i] - 1]]

\* Results.  Every result is a record with a tag; the other fields depend
\* on the tag.
OkLink(link) == [tag |-> "OkLink", link |-> link]

OkRow(row) == [tag |-> "OkRow", row |-> row]

OkRes(v) == [tag |-> "OkRes", res |-> v]

OkUnit == [tag |-> "OkUnit"]

\* DataExecutionError / ExecutionError values
InvalidLink == [kind |-> "InvalidLink", page_id |-> 0, free |-> 0, required |-> 0]

DeserializeError == [kind |-> "DeserializeError", page_id |-> 0, free |-> 0, required |-> 0]

PageIsFull(free, required) ==
    [kind |-> "PageIsFull", page_id |-> 0, free |-> free, required |-> required]

PageNotFound(page_id) ==
    [kind |-> "PageNotFound", page_id |-> page_id, free |-> 0, required |-> 0]

Err(e) == [tag |-> "Err", err |-> e]

\* the thread unwound instead of returning
Panicked == [tag |-> "Panic"]

NoResult == [tag |-> "None"]

----------------------------------------------------------------------------
(* DataPage<INNER> *)

\* DataPage::new(page_id)
DataPage_new(page_id) ==
    [page_id |-> page_id, data |-> [i \in 1..INNER |-> 0], length |-> 0]

\* write bytes b into data at 0-based offset o
WriteAt(data, o, b) ==
    [i \in 1..INNER |-> IF i > o /\ i <= o + Len(b) THEN b[i - o] ELSE data[i]]

\* the slice [offset, offset + length)
Slice(data, o, n) == [i \in 1..n |-> data[o + i]]

\* DataPage::save_row: append at the write cursor
save_row(page, general_row) ==
    LET b == to_bytes(general_row) IN
    IF page.length + Len(b) > INNER
    THEN [res |-> Err(PageIsFull(INNER - page.length, Len(b))), page |-> page]
    ELSE [res |-> OkLink(PageLink(page.page_id, page.length, Len(b))),
          page |-> [page EXCEPT !.data = WriteAt(page.data, page.length, b),
                                !.length = page.length + Len(b)]]

\* the geometry check shared by save_row_by_link and the readers
LinkInPage(page, link) ==
    /\ link.page_id = page.page_id
    /\ link.offset + link.length <= page.length

\* DataPage::save_row_by_link: overwrite in place
save_row_by_link(page, general_row, link) ==
    LET b == to_bytes(general_row) IN
    IF Len(b) = link.length /\ LinkInPage(page, link)
    THEN [res |-> OkLink(link),
          page |-> [page EXCEPT !.data = WriteAt(page.data, link.offset, b)]]
    ELSE [res |-> Err(InvalidLink), page |-> page]

\* DataPage::get_row
get_row(page, link) ==
    IF ~LinkInPage(page, link) THEN Err(InvalidLink)
    ELSE LET b == Slice(page.data, link.offset, link.length) IN
         IF ValidBytes(b) THEN OkRow(from_bytes(b)) ELSE Err(DeserializeError)

----------------------------------------------------------------------------
(* State *)

VARIABLES
    pages,        \* Vec<Arc<RwLock<DataPage>>>: the pages themselves
    page_locks,   \* the RwLock around each page: write holder and poison flag
    pages_lock,   \* the RwLock around the vector: write holder, read guards per thread
    empty_links,  \* Stack<PageLink>, top first
    row_count,    \* AtomicU64
    last_page_id, \* AtomicU32
    current_page, \* AtomicU32
    pc,           \* where each thread is
    local,        \* the locals of the insert a thread is in
    budget,       \* calls left in this run
    ret,          \* the call that returned last: its link and result
    issued,       \* history: links insert has returned Ok
    live,         \* history: links insert has returned Ok and delete has not taken since
    intact,       \* history: (link, row) stored by insert and not written through since
    fresh_saved,  \* history: inserts whose save_row on current_page succeeded
    entry,        \* history: what a running insert found when it was called
    file,         \* the table file load_from_file finds
    loaded,       \* what load_from_file returned
    table,        \* the table into_space is called on
    space,        \* what into_space returned
    persisted     \* Space::persist: its position, the pages in the file, its result

shared == <<pages, empty_links, row_count, last_page_id, current_page>>

locks == <<pages_lock, page_locks>>

history == <<issued, live, intact, fresh_saved, entry>>

storage == <<file, loaded, table, space, persisted>>

vars == <<pages, page_locks, pages_lock, empty_links, row_count, last_page_id,
          current_page, pc, local, budget, ret, issued, live, intact,
          fresh_saved, entry, file, loaded, table, space, persisted>>

NoLocal == [row |-> NoRow, link |-> NoLink, tried_page |-> 0, index |-> 0]

NoEntry == [np |-> 0, cp |-> 0, lp |-> 0, free |-> 0, top |-> NoLink]

\* path: how an insert got its link ("reuse", "fresh", "retry"), else "none"
Ret(op, path, link, res) == [op |-> op, path |-> path, link |-> link, res |-> res]

NoRet == Ret("none", "none", NoLink, NoResult)

\* two links whose byte ranges intersect
Overlap(a, b) ==
    /\ a.page_id = b.page_id
    /\ a.offset < b.offset + b.length
    /\ b.offset < a.offset + a.length

\* the stored rows a write through link leaves alone
Untouched(link) == {e \in intact : ~Overlap(e.link, link)}

\* links a caller can pass: those insert returned, and made-up ones
LinkArgs == issued \cup ForgedLinks

----------------------------------------------------------------------------
(* Locks *)

\* RwLock::new
RwLock_new == [writer |-> 0, poisoned |-> FALSE]

\* the guards thread t holds are dropped on return
DropPageGuards(t) ==
    [i \in DOMAIN page_locks |->
        IF page_locks[i].writer = t THEN [page_locks[i] EXCEPT !.writer = 0]
        ELSE page_locks[i]]

\* the guards thread t holds are dropped while it unwinds: a write guard
\* dropped during a panic poisons its lock
UnwindPageGuards(t) ==
    [i \in DOMAIN page_locks |->
        IF page_locks[i].writer = t THEN [writer |-> 0, poisoned |-> TRUE]
        ELSE page_locks[i]]

DropPagesGuards(t) == [pages_lock EXCEPT !.readers[t] = 0]

\* another thread is in pages.write(), waiting or about to
WriterWaiting(t) == \E u \in Threads \ {t} : pc[u] = "anp_lock"

\* thread t returns from a call: its guards are dropped
Return(t) ==
    /\ pc' = [pc EXCEPT ![t] = "idle"]
    /\ local' = [local EXCEPT ![t] = NoLocal]
    /\ entry' = [entry EXCEPT ![t] = NoEntry]
    /\ pages_lock' = DropPagesGuards(t)
    /\ page_locks' = DropPageGuards(t)

\* thread t panics and unwinds
Panic(t) ==
    /\ pc' = [pc EXCEPT ![t] = "panicked"]
    /\ local' = [local EXCEPT ![t] = NoLocal]
    /\ entry' = [entry EXCEPT ![t] = NoEntry]
    /\ ret' = ret
    /\ pages_lock' = DropPagesGuards(t)
    /\ page_locks' = UnwindPageGuards(t)
    /\ UNCHANGED <<shared, issued, live, intact, fresh_saved, storage>>

----------------------------------------------------------------------------
(* DataPager::insert *)

\* empty_links.pop(): the link taken and the stack left
\* variant: a pop that leaves the link on the stack
stack_pop_kept == [link |-> Head(empty_links), rest |-> empty_links]

stack_pop == [link |-> Head(empty_links), rest |-> Tail(empty_links)]

\* a push that leaves two copies of the link
stack_push_twice(link) == <<link, link>> \o empty_links

\* a queue in place of the stack: the link goes to the bottom
stack_push_bottom(link) == empty_links \o <<link>>

\* empty_links.push(link)
stack_push(link) == <<link>> \o empty_links

\* a reusing insert that counted its row
row_count_counted == row_count + 1

\* row_count after an insert that reused a recycled link (line 87: untouched)
row_count_after_reuse == row_count

\* what a running insert remembers of the state it was called in
EntryNow ==
    [np |-> Len(pages), cp |-> current_page, lp |-> last_page_id,
     free |-> IF current_page < Len(pages)
              THEN INNER - pages[current_page + 1].length ELSE 0,
     top |-> IF empty_links = <<>> THEN NoLink ELSE Head(empty_links)]

\* lines 67-69: wrap the row, pop the free stack
InsertStart(t, row) ==
    /\ pc[t] = "idle"
    /\ budget > 0
    /\ budget' = budget - 1
    /\ entry' = [entry EXCEPT ![t] = EntryNow]
    /\ IF empty_links # <<>>
       THEN /\ empty_links' = stack_pop.rest
            /\ local' = [local EXCEPT ![t] = [NoLocal EXCEPT !.row = row, !.link = stack_pop.link]]
            /\ pc' = [pc EXCEPT ![t] = "reuse_save"]
       ELSE /\ empty_links' = empty_links
            /\ local' = [local EXCEPT ![t] = [NoLocal EXCEPT !.row = row]]
            /\ pc' = [pc EXCEPT ![t] = "fresh_save"]
    /\ UNCHANGED <<pages, row_count, last_page_id, current_page, locks, ret,
                   issued, live, intact, fresh_saved, storage>>

\* lines 70-88: the recycled-link path, up to the outcome of save_row_by_link
ReuseSave(t) ==
    LET link == local[t].link
        row == local[t].row
        p == link.page_id + 1
    IN
    /\ pc[t] = "reuse_save"
    /\ pages_lock.writer = 0
    /\ UNCHANGED budget
    /\ IF link.page_id >= Len(pages)
       THEN \* pages[current_page] at line 72 is out of bounds
            Panic(t)
       ELSE /\ page_locks[p].writer = 0
            /\ IF page_locks[p].poisoned
               THEN Panic(t)
               ELSE LET r == save_row_by_link(pages[p], from_inner(row), link) IN
                    IF r.res.tag = "OkLink"
                    THEN /\ pages' = [pages EXCEPT ![p] = r.page]
                         /\ row_count' = row_count_after_reuse
                         /\ issued' = issued \cup {link}
                         /\ live' = live \cup {link}
                         /\ intact' = Untouched(link) \cup {[link |-> link, row |-> row]}
                         /\ Return(t)
                         /\ ret' = Ret("insert", "reuse", link, OkLink(link))
                         /\ UNCHANGED <<empty_links, last_page_id, current_page,
                                        fresh_saved, storage>>
                    ELSE IF r.res.err.kind = "InvalidLink"
                    THEN \* the read guard on pages stays.  The write guard on the
                         \* page is a temporary of the tail expression of the
                         \* unsafe block: it lives to the end of the statement
                         \* (editions up to 2021) or of the block (edition 2024)
                         /\ pc' = [pc EXCEPT ![t] = "reuse_push"]
                         /\ pages_lock' = [pages_lock EXCEPT !.readers[t] = 1]
                         /\ \E held \in BOOLEAN :
                                page_locks' = IF held
                                              THEN [page_locks EXCEPT ![p].writer = t]
                                              ELSE page_locks
                         /\ UNCHANGED <<shared, local, ret, history, storage>>
                    ELSE /\ Return(t)
                         /\ ret' = Ret("insert", "reuse", NoLink, Err(r.res.err))
                         /\ UNCHANGED <<shared, issued, live, intact, fresh_saved, storage>>

\* line 79: the rejected link goes back on the stack
ReusePush(t) ==
    /\ pc[t] = "reuse_push"
    /\ empty_links' = stack_push(local[t].link)
    /\ pc' = [pc EXCEPT ![t] = "retry"]
    /\ UNCHANGED <<pages, row_count, last_page_id, current_page, locks, local,
                   budget, ret, history, storage>>

\* lines 91-101: save_row on page current_page under the read lock
FreshSave(t) ==
    LET row == local[t].row
        cp == current_page
        p == cp + 1
    IN
    /\ pc[t] = "fresh_save"
    /\ pages_lock.writer = 0
    /\ UNCHANGED budget
    /\ IF cp >= Len(pages)
       THEN Panic(t)
       ELSE /\ page_locks[p].writer = 0
            /\ IF page_locks[p].poisoned
               THEN Panic(t)
               ELSE LET r == save_row(pages[p], from_inner(row)) IN
                    /\ UNCHANGED <<empty_links, row_count, last_page_id, current_page,
                                   locks, ret, issued, live, entry, storage>>
                    /\ pages' = [pages EXCEPT ![p] = r.page]
                    /\ IF r.res.tag = "OkLink"
                       THEN /\ pc' = [pc EXCEPT ![t] = "fresh_count"]
                            /\ local' = [local EXCEPT ![t].link = r.res.link, ![t].tried_page = cp]
                            /\ fresh_saved' = fresh_saved + 1
                            /\ intact' = intact \cup {[link |-> r.res.link, row |-> row]}
                       ELSE \* PageIsFull is the only error of save_row
                            /\ pc' = [pc EXCEPT ![t] = "full_check"]
                            /\ local' = [local EXCEPT ![t].tried_page = cp]
                            /\ UNCHANGED <<fresh_saved, intact>>

\* lines 103-106, 119: count the row and return its link
FreshCount(t) ==
    /\ pc[t] = "fresh_count"
    /\ row_count' = row_count + 1
    /\ issued' = issued \cup {local[t].link}
    /\ live' = live \cup {local[t].link}
    /\ Return(t)
    /\ ret' = Ret("insert", "fresh", local[t].link, OkLink(local[t].link))
    /\ UNCHANGED <<pages, empty_links, last_page_id, current_page, budget, intact,
                   fresh_saved, storage>>

\* line 109: was the page that was full still the current one?
FullCheck(t) ==
    /\ pc[t] = "full_check"
    /\ pc' = [pc EXCEPT ![t] = IF local[t].tried_page = current_page
                               THEN "anp_lock" ELSE "retry"]
    /\ UNCHANGED <<shared, locks, local, budget, ret, history, storage>>

----------------------------------------------------------------------------
(* DataPager::add_next_page *)

\* an id one further than the page appended
next_page_index_skip(fetched) == fetched + 2

\* line 150: the id of the page to append, from what fetch_add returned
next_page_index(fetched) == fetched + 1

\* a growth step that puts the new page in front of the others
pages_pushed_front(index) == <<DataPage_new(index)>> \o pages

\* a growth step that reserves the id and appends nothing
pages_not_pushed(index) == pages

\* line 152: the vector with the new page pushed
pages_pushed(index) == Append(pages, DataPage_new(index))

\* a growth step with no check under the write lock
still_current_always(tried_page) == TRUE

\* the check under the write lock turned round
still_current_never(tried_page) == tried_page # current_page

\* line 149: the check repeated under the write lock
still_current(tried_page) == tried_page = current_page

\* lines 148-150: take the write lock, check again, reserve the page id
AnpLock(t) ==
    /\ pc[t] = "anp_lock"
    /\ pages_lock.writer = 0
    /\ \A u \in Threads : pages_lock.readers[u] = 0
    /\ IF still_current(local[t].tried_page)
       THEN /\ last_page_id' = last_page_id + 1
            /\ local' = [local EXCEPT ![t].index = next_page_index(last_page_id)]
            /\ pages_lock' = [pages_lock EXCEPT !.writer = t]
            /\ pc' = [pc EXCEPT ![t] = "anp_push"]
       ELSE \* another thread grew the store: the guard is dropped at once
            /\ pc' = [pc EXCEPT ![t] = "retry"]
            /\ UNCHANGED <<last_page_id, local, pages_lock>>
    /\ UNCHANGED <<pages, page_locks, empty_links, row_count, current_page, budget,
                   ret, history, storage>>

\* line 152
AnpPush(t) ==
    /\ pc[t] = "anp_push"
    /\ pages' = pages_pushed(local[t].index)
    /\ page_locks' = Append(page_locks, RwLock_new)
    /\ pc' = [pc EXCEPT ![t] = "anp_cur"]
    /\ UNCHANGED <<pages_lock, empty_links, row_count, last_page_id, current_page,
                   local, budget, ret, history, storage>>

\* a step that moves current_page past the page appended
current_page_skipped == current_page + 2

\* line 153: current_page.fetch_add(1)
current_page_advanced == current_page + 1

\* lines 153-155: advance current_page and drop the write guard
AnpCur(t) ==
    /\ pc[t] = "anp_cur"
    /\ current_page' = current_page_advanced
    /\ pages_lock' = [pages_lock EXCEPT !.writer = 0]
    /\ pc' = [pc EXCEPT ![t] = "retry"]
    /\ UNCHANGED <<pages, page_locks, empty_links, row_count, last_page_id, local,
                   budget, ret, history, storage>>

----------------------------------------------------------------------------
(* DataPager::retry_insert *)

\* pages.read() at line 130 by a thread that already holds a read guard
\* while a writer waits, or page.write() at line 135 on the page whose write
\* guard the thread still holds: std::sync::RwLock "might panic or deadlock"
RetryRelocks(t) ==
    \/ pages_lock.readers[t] > 0 /\ WriterWaiting(t)
    \/ /\ current_page < Len(pages)
       /\ page_locks[current_page + 1].writer = t

\* lines 130-138: save_row on page current_page
RetryInsert(t) ==
    LET row == local[t].row
        cp == current_page
        p == cp + 1
    IN
    /\ pc[t] = "retry"
    /\ pages_lock.writer = 0
    /\ UNCHANGED budget
    /\ IF cp >= Len(pages)
       THEN Panic(t)
       ELSE /\ page_locks[p].writer = 0
            /\ IF page_locks[p].poisoned
               THEN Panic(t)
               ELSE LET r == save_row(pages[p], from_inner(row)) IN
                    IF r.res.tag = "OkLink"
                    THEN /\ pages' = [pages EXCEPT ![p] = r.page]
                         /\ pc' = [pc EXCEPT ![t] = "retry_count"]
                         /\ local' = [local EXCEPT ![t].link = r.res.link]
                         /\ pages_lock' = [pages_lock EXCEPT !.readers[t] = @ + 1]
                         /\ fresh_saved' = fresh_saved + 1
                         /\ intact' = intact \cup {[link |-> r.res.link, row |-> row]}
                         /\ UNCHANGED <<empty_links, row_count, last_page_id, current_page,
                                        page_locks, ret, issued, live, entry, storage>>
                    ELSE /\ Return(t)
                         /\ ret' = Ret("insert", "retry", NoLink, Err(r.res.err))
                         /\ UNCHANGED <<shared, issued, live, intact, fresh_saved, storage>>

\* the second acquisition blocks for ever
RetryDeadlock(t) ==
    /\ pc[t] = "retry"
    /\ RetryRelocks(t)
    /\ pc' = [pc EXCEPT ![t] = "deadlocked"]
    /\ UNCHANGED <<shared, locks, local, budget, ret, history, storage>>

\* the second acquisition panics
RetryPanic(t) ==
    /\ pc[t] = "retry"
    /\ RetryRelocks(t)
    /\ UNCHANGED budget
    /\ Panic(t)

\* lines 139-141: count the row and return its link
RetryCount(t) ==
    /\ pc[t] = "retry_count"
    /\ row_count' = row_count + 1
    /\ issued' = issued \cup {local[t].link}
    /\ live' = live \cup {local[t].link}
    /\ Return(t)
    /\ ret' = Ret("insert", "retry", local[t].link, OkLink(local[t].link))
    /\ UNCHANGED <<pages, empty_links, last_page_id, current_page, budget, intact,
                   fresh_saved, storage>>

----------------------------------------------------------------------------
(* DataPager::select, with_ref, with_mut_ref, update, delete *)

\* DataPage::get_row_ref / get_mut_row_ref: the archived bytes in place
get_row_ref(page, link) ==
    IF LinkInPage(page, link)
    THEN OkRes(Slice(page.data, link.offset, link.length))
    ELSE Err(InvalidLink)

\* the closure given to with_ref: reads the first archived column
read_op(archived) == archived[1]

\* the closure given to with_mut_ref: stores column value v in the first
\* archived column and returns what was there
write_op(archived, v) == [res |-> archived[1], archived |-> [archived EXCEPT ![1] = v + 1]]

\* a lookup that reports a page out of range as an invalid link
page_of_invalid(link) ==
    IF link.page_id < Len(pages) THEN OkRes(link.page_id + 1)
    ELSE Err(InvalidLink)

\* lines 169-172 (and 190-193, 215-218, 237-240): pages.get(link.page_id)
page_of(link) ==
    IF link.page_id < Len(pages) THEN OkRes(link.page_id + 1)
    ELSE Err(PageNotFound(link.page_id))

\* a select that reads page current_page whatever page the link names
select_current(link) ==
    IF page_of(link).tag = "Err" THEN page_of(link)
    ELSE LET r == get_row(pages[current_page + 1], link) IN
         IF r.tag = "OkRow" THEN OkRow(get_inner(r.row)) ELSE r

\* lines 169-178: what select returns
select(link) ==
    IF page_of(link).tag = "Err" THEN page_of(link)
    ELSE LET r == get_row(pages[page_of(link).res], link) IN
         IF r.tag = "OkRow" THEN OkRow(get_inner(r.row)) ELSE r

\* lines 190-199: what with_ref returns
with_ref(link) ==
    IF page_of(link).tag = "Err" THEN page_of(link)
    ELSE LET r == get_row_ref(pages[page_of(link).res], link) IN
         IF r.tag = "OkRes" THEN OkRes(read_op(r.res)) ELSE r

\* lines 215-225: what with_mut_ref returns and the page it leaves
with_mut_ref(link, v) ==
    IF page_of(link).tag = "Err" THEN [res |-> page_of(link), pages |-> pages]
    ELSE LET p == page_of(link).res
             r == get_row_ref(pages[p], link)
         IN IF r.tag = "OkRes"
            THEN [res |-> OkRes(write_op(r.res, v).res),
                  pages |-> [pages EXCEPT ![p].data =
                                WriteAt(@, link.offset, write_op(r.res, v).archived)]]
            ELSE [res |-> r, pages |-> pages]

\* an update that leaves the write cursor at the end of the slot written
update_moved(row, link) ==
    IF page_of(link).tag = "Err" THEN [res |-> page_of(link), pages |-> pages]
    ELSE LET p == page_of(link).res
             r == save_row_by_link(pages[p], from_inner(row), link)
         IN [res |-> r.res,
             pages |-> IF r.res.tag = "OkLink"
                       THEN [pages EXCEPT ![p] = [r.page EXCEPT !.length = link.offset + link.length]]
                       ELSE pages]

\* lines 237-247: what update returns and the page it leaves
update(row, link) ==
    IF page_of(link).tag = "Err" THEN [res |-> page_of(link), pages |-> pages]
    ELSE LET p == page_of(link).res
             r == save_row_by_link(pages[p], from_inner(row), link)
         IN [res |-> r.res, pages |-> [pages EXCEPT ![p] = r.page]]

\* a call that takes the read lock on pages, then a guard on the page of
\* link, and returns within one critical section
LinkCall(t, op, link, res, new_pages) ==
    /\ pc[t] = "idle"
    /\ budget > 0
    /\ budget' = budget - 1
    /\ pages_lock.writer = 0
    /\ IF link.page_id >= Len(pages)
       THEN /\ Return(t)
            /\ ret' = Ret(op, "none", link, res)
            /\ pages' = new_pages
            /\ UNCHANGED <<empty_links, row_count, last_page_id, current_page,
                           issued, live, intact, fresh_saved, storage>>
       ELSE /\ page_locks[link.page_id + 1].writer = 0
            /\ IF page_locks[link.page_id + 1].poisoned
               THEN Panic(t)
               ELSE /\ Return(t)
                    /\ ret' = Ret(op, "none", link, res)
                    /\ pages' = new_pages
                    /\ intact' = IF new_pages = pages THEN intact ELSE Untouched(link)
                    /\ UNCHANGED <<empty_links, row_count, last_page_id, current_page,
                                   issued, live, fresh_saved, storage>>

Select(t, link) == LinkCall(t, "select", link, select(link), pages)

WithRef(t, link) == LinkCall(t, "with_ref", link, with_ref(link), pages)

WithMutRef(t, link, v) ==
    LinkCall(t, "with_mut_ref", link, with_mut_ref(link, v).res,
             with_mut_ref(link, v).pages)

Update(t, row, link) ==
    LinkCall(t, "update", link, update(row, link).res, update(row, link).pages)

\* lines 250-253
Delete(t, link) ==
    /\ pc[t] = "idle"
    /\ budget > 0
    /\ budget' = budget - 1
    /\ empty_links' = stack_push(link)
    /\ live' = live \ {link}
    /\ Return(t)
    /\ ret' = Ret("delete", "none", link, OkUnit)
    /\ UNCHANGED <<pages, row_count, last_page_id, current_page, issued, intact,
                   fresh_saved, storage>>

----------------------------------------------------------------------------
(* load_from_file of the generated table *)

PageTypes == {"SpaceInfo", "PrimaryIndex", "SecondaryIndex", "Data"}

\* no file of that name in the database directory
MissingFile == [state |-> "missing", pages |-> <<>>]

\* a file that is there and cannot be opened (no permission, a directory)
UnreadableFile == [state |-> "unreadable", pages |-> <<>>]

\* a file that opens, holding a sequence of typed pages
PresentFile(page_types) == [state |-> "present", pages |-> page_types]

PageSeqs(n) == UNION {[1..k -> PageTypes] : k \in 0..n}

Files == {MissingFile, UnreadableFile} \cup {PresentFile(q) : q \in PageSeqs(MaxFilePages)}

\* std::fs::File::open
File_open(f) ==
    IF f.state = "present" THEN [tag |-> "Ok"]
    ELSE IF f.state = "missing" THEN [tag |-> "Err", kind |-> "NotFound"]
    ELSE [tag |-> "Err", kind |-> "PermissionDenied"]

\* the first position from i on whose page is not of the given type
RECURSIVE RunEnd(_, _, _)
RunEnd(q, i, type) ==
    IF i <= Len(q) /\ q[i] = type THEN RunEnd(q, i + 1, type) ELSE i

\* Space::parse_file: the SpaceInfo page, then the primary index pages, the
\* secondary index pages and the data pages, each page of the type its
\* section expects
parse_file(f) ==
    LET q == f.pages
        a == IF Len(q) > 0 /\ q[1] = "SpaceInfo" THEN 2 ELSE 1
        b == RunEnd(q, a, "PrimaryIndex")
        c == RunEnd(q, b, "SecondaryIndex")
        d == RunEnd(q, c, "Data")
    IN IF a = 2 /\ b > a /\ d > c /\ d = Len(q) + 1
       THEN [tag |-> "Ok", space |-> q]
       ELSE [tag |-> "Err", kind |-> "Parse"]

\* lines 70-79
load_from_file(f) ==
    IF File_open(f).tag # "Ok"
    THEN [tag |-> "Ok", table |-> "new"]
    ELSE IF parse_file(f).tag # "Ok"
    THEN [tag |-> "Err", kind |-> parse_file(f).kind]
    ELSE [tag |-> "Ok", table |-> "from_space"]

NotLoaded == [tag |-> "None"]

LoadFromFile ==
    /\ loaded = NotLoaded
    /\ loaded' = load_from_file(file)
    /\ UNCHANGED <<shared, locks, pc, local, budget, ret, history, file, table, space, persisted>>

----------------------------------------------------------------------------
(* into_space of the generated table *)

\* what into_space reads of a table: the pages its primary index maps to,
\* the pages of each secondary index in order, and the pages of its pager
Table(pk, sec, data) == [pk_pages |-> pk, sec_pages |-> sec, data_pages |-> data]

\* a table just created: an empty primary index still maps to one page, the
\* pager has its page 0
NewTable == Table(1, <<>>, 1)

Tables ==
    {Table(pk, sec, data) :
        pk \in 1..MaxSectionPages,
        sec \in UNION {[1..k -> 1..MaxSectionPages] : k \in 0..MaxIndexes},
        data \in 1..MaxSectionPages}

Interval(first, last) == <<first, last>>

\* map_index_pages_to_general / map_data_pages_to_general: n pages with
\* consecutive ids after prev_id, each chained to the page before it
map_pages_to_general(n, prev_id, page_type) ==
    [i \in 1..n |-> [page_id |-> prev_id + i,
                     previous_id |-> prev_id + i - 1,
                     page_type |-> page_type]]

\* get_persisted_index: the pages of every secondary index, each index
\* continuing the chain where the one before it ended
RECURSIVE get_persisted_index(_, _)
get_persisted_index(sec_pages, prev_id) ==
    IF sec_pages = <<>> THEN <<>>
    ELSE <<map_pages_to_general(Head(sec_pages), prev_id, "SecondaryIndex")>>
         \o get_persisted_index(Tail(sec_pages), prev_id + Head(sec_pages))

\* indexes.get_intervals
get_intervals(indexes) ==
    [k \in 1..Len(indexes) |->
        Interval(indexes[k][1].page_id, indexes[k][Len(indexes[k])].page_id)]

\* variant: the data section always continues from the header passed in
last_page_id_of_primary(indexes, previous_id) == previous_id

\* indexes.get_last_header_mut, else the header passed in (lines 172-175)
last_page_id_of(indexes, previous_id) ==
    IF indexes = <<>> THEN previous_id
    ELSE indexes[Len(indexes)][Len(indexes[Len(indexes)])].page_id

\* lines 142 and 161: the page count into_space records
page_count_recorded(primary_index, indexes, data) == 1 + Len(primary_index)

\* space_info_default (lines 89-114): the header of the SpaceInfo page
space_info_default == [page_id |-> 0, previous_id |-> 0, page_type |-> "SpaceInfo"]

\* lines 136-203
into_space(tbl) ==
    LET header == space_info_default
        primary_index == map_pages_to_general(tbl.pk_pages, header.page_id, "PrimaryIndex")
        pk_last == primary_index[Len(primary_index)].page_id
        indexes == get_persisted_index(tbl.sec_pages, pk_last)
        data == map_pages_to_general(tbl.data_pages, last_page_id_of(indexes, pk_last), "Data")
    IN [info |-> [header |-> header,
                  page_count |-> page_count_recorded(primary_index, indexes, data),
                  primary_key_intervals |-> <<Interval(primary_index[1].page_id, pk_last)>>,
                  secondary_index_intervals |-> get_intervals(indexes),
                  data_intervals |-> <<Interval(data[1].page_id, data[Len(data)].page_id)>>],
        primary_index |-> primary_index,
        indexes |-> indexes,
        data |-> data]

\* the pages of all secondary indexes, in the order indexes.persist writes them
RECURSIVE IndexPagesOf(_)
IndexPagesOf(indexes) ==
    IF indexes = <<>> THEN <<>> ELSE Head(indexes) \o IndexPagesOf(Tail(indexes))

NoSpace == [info |-> "none"]

IntoSpace ==
    /\ space = NoSpace
    /\ space' = into_space(table)
    /\ UNCHANGED <<shared, locks, pc, local, budget, ret, history, file, loaded, table, persisted>>

----------------------------------------------------------------------------
(* Space::persist *)

\* the outcome of one file-system call
IoOutcomes == {"ok", "error"}

\* eyre::Result of persist: an I/O error passed on by `?`
IoError == Err([kind |-> "Io", page_id |-> 0, free |-> 0, required |-> 0])

\* persist not yet called: no file
NotPersisted == [stage |-> "none", i |-> 0, written |-> <<>>, res |-> NoResult]

\* what a failed write leaves of its page: nothing, or a part of it
TornPage == [page_id |-> 0, previous_id |-> 0, page_type |-> "Torn"]

\* variant: the data pages are written before the secondary-index pages
stage_after_data_first(stage) ==
    CASE stage = "info" -> "primary"
      [] stage = "primary" -> "data"
      [] stage = "data" -> "indexes"
      [] stage = "indexes" -> "done"

\* lines 221-231: the statement after the one that wrote a section
stage_after(stage) ==
    CASE stage = "info" -> "primary"
      [] stage = "primary" -> "indexes"
      [] stage = "indexes" -> "data"
      [] stage = "data" -> "done"

\* the pages a stage writes, in the order it writes them
StagePages(stage) ==
    CASE stage = "info" -> <<space.info.header>>
      [] stage = "primary" -> space.primary_index
      [] stage = "indexes" -> IndexPagesOf(space.indexes)
      [] stage = "data" -> space.data

\* lines 215-220: create_dir_all(prefix).unwrap(), File::create(..)?
PersistCreate ==
    /\ space # NoSpace
    /\ persisted.stage = "none"
    /\ \E dir \in IoOutcomes, create \in IoOutcomes :
        persisted' =
            IF dir = "error"
            THEN [persisted EXCEPT !.stage = "done", !.res = Panicked]
            ELSE IF create = "error"
            THEN [persisted EXCEPT !.stage = "done", !.res = IoError]
            ELSE [persisted EXCEPT !.stage = "info", !.i = 1]
    /\ UNCHANGED <<shared, locks, pc, local, budget, ret, history, file, loaded, table, space>>

\* the step after page i of a stage: the next page of the loop, else the
\* first stage after it that has a page to write, else Ok(()) (line 231)
RECURSIVE Advance(_, _, _)
Advance(stage, i, written) ==
    IF stage = "done"
    THEN [stage |-> "done", i |-> 0, written |-> written, res |-> OkUnit]
    ELSE IF i <= Len(StagePages(stage))
    THEN [stage |-> stage, i |-> i, written |-> written, res |-> NoResult]
    ELSE Advance(stage_after(stage), 1, written)

\* persist_page(page, file)?  (lines 221-228; indexes.persist writes the
\* secondary-index pages the same way)
PersistPage ==
    /\ persisted.stage \in {"info", "primary", "indexes", "data"}
    /\ \E write \in IoOutcomes, torn \in BOOLEAN :
        LET page == StagePages(persisted.stage)[persisted.i]
        IN persisted' =
            IF write = "error"
            THEN [stage |-> "done", i |-> 0,
                  written |-> IF torn THEN Append(persisted.written, TornPage)
                                      ELSE persisted.written,
                  res |-> IoError]
            ELSE Advance(persisted.stage, persisted.i + 1, Append(persisted.written, page))
    /\ UNCHANGED <<shared, locks, pc, local, budget, ret, history, file, loaded, table, space>>

----------------------------------------------------------------------------
(* Specifications *)

\* DataPager::new (lines 48-56), no call made yet
NewPager ==
    /\ pages = <<DataPage_new(0)>>
    /\ page_locks = <<RwLock_new>>
    /\ pages_lock = [writer |-> 0, readers |-> [t \in Threads |-> 0]]
    /\ empty_links = <<>>
    /\ row_count = 0
    /\ last_page_id = 0
    /\ current_page = 0
    /\ pc = [t \in Threads |-> "idle"]
    /\ local = [t \in Threads |-> NoLocal]
    /\ ret = NoRet
    /\ issued = {}
    /\ live = {}
    /\ intact = {}
    /\ fresh_saved = 0
    /\ entry = [t \in Threads |-> NoEntry]

\* the steps of an insert after its call
InsertStep(t) ==
    \/ FreshSave(t)
    \/ FreshCount(t)
    \/ FullCheck(t)
    \/ AnpLock(t)
    \/ AnpPush(t)
    \/ AnpCur(t)
    \/ RetryInsert(t)
    \/ RetryCount(t)

\* the steps of an insert that found a recycled link
ReuseStep(t) ==
    \/ ReuseSave(t)
    \/ ReusePush(t)
    \/ RetryDeadlock(t)
    \/ RetryPanic(t)

\* the calls a thread can make
Call(t) ==
    \/ \E row \in RowArgs : InsertStart(t, row)
    \/ \E link \in LinkArgs : Select(t, link)
    \/ \E link \in LinkArgs : WithRef(t, link)
    \/ \E link \in LinkArgs, v \in 1..2 : WithMutRef(t, link, v)
    \/ \E link \in LinkArgs, row \in RowArgs : Update(t, row, link)
    \/ \E link \in LinkArgs : Delete(t, link)

\* threads calling every operation of one shared pager
Init ==
    /\ NewPager
    /\ budget = MaxOps
    /\ file = MissingFile
    /\ loaded = NotLoaded
    /\ table = NewTable
    /\ space = NoSpace
    /\ persisted = NotPersisted

Next == \E t \in Threads : Call(t) \/ InsertStep(t) \/ ReuseStep(t)

Spec == Init /\ [][Next]_vars

\* one thread calling every operation
InitSeq ==
    /\ NewPager
    /\ budget = MaxSeqOps
    /\ file = MissingFile
    /\ loaded = NotLoaded
    /\ table = NewTable
    /\ space = NoSpace
    /\ persisted = NotPersisted

NextSeq == Call(1) \/ InsertStep(1) \/ ReuseStep(1)

SpecSeq == InitSeq /\ [][NextSeq]_vars

\* threads that only insert rows of one serialized length (tests::bench)
BenchRows == {row \in RowArgs : Len(row) = 1}

InitIns ==
    /\ NewPager
    /\ budget = MaxInserts
    /\ file = MissingFile
    /\ loaded = NotLoaded
    /\ table = NewTable
    /\ space = NoSpace
    /\ persisted = NotPersisted

NextIns == \E t \in Threads : (\E row \in BenchRows : InsertStart(t, row)) \/ InsertStep(t)

SpecIns == InitIns /\ [][NextIns]_vars

\* load_from_file on every table file
InitLoad ==
    /\ NewPager
    /\ budget = 0
    /\ file \in Files
    /\ loaded = NotLoaded
    /\ table = NewTable
    /\ space = NoSpace
    /\ persisted = NotPersisted

NextLoad == LoadFromFile

SpecLoad == InitLoad /\ [][NextLoad]_vars

\* into_space on every table content
InitSpace ==
    /\ NewPager
    /\ budget = 0
    /\ file = MissingFile
    /\ loaded = NotLoaded
    /\ table \in Tables
    /\ space = NoSpace
    /\ persisted = NotPersisted

NextSpace == IntoSpace

SpecSpace == InitSpace /\ [][NextSpace]_vars

\* callers that keep to the contract of delete: a thread inserts, or deletes
\* a link insert returned that has not been deleted since
\* a row of each serialized length: which slot an insert takes depends on the
\* length of its row only
LiveRows == {<<1>>, <<1, 2>>}

LiveCall(t) ==
    \/ \E row \in LiveRows : InsertStart(t, row)
    \/ \E link \in live : Delete(t, link)

InitLive ==
    /\ NewPager
    /\ budget = MaxLiveOps
    /\ file = MissingFile
    /\ loaded = NotLoaded
    /\ table = NewTable
    /\ space = NoSpace
    /\ persisted = NotPersisted

NextLive ==
    \E t \in Threads :
        \/ LiveCall(t)
        \/ InsertStep(t)
        \/ ReuseStep(t)

SpecLive == InitLive /\ [][NextLive]_vars

\* into_space, then persist of the Space it returned
InitPersist == InitSpace

NextPersist ==
    \/ IntoSpace
    \/ PersistCreate
    \/ PersistPage

SpecPersist == InitPersist /\ [][NextPersist]_vars

\* the concurrent specification under a fair scheduler: a thread inside
\* insert whose next step can be taken takes it
SpecFair ==
    /\ Init
    /\ [][Next]_vars
    /\ \A t \in Threads : WF_vars(InsertStep(t) \/ ReuseStep(t))

----------------------------------------------------------------------------
(* Properties *)

\* no thread is inside an insert
Quiescent == \A t \in Threads : pc[t] \in {"idle", "panicked"}

\* serialized length of a row
SerLen(row) == Len(to_bytes(from_inner(row)))

\* the operations that read or write through a link
LinkOps == {"select", "with_ref", "with_mut_ref", "update"}

\* this step is a call of one of ops, made and returned: such a call is the
\* only step that spends budget, leaves every thread where it was and
\* records its name
CallReturned(ops) == budget' # budget /\ pc' = pc /\ ret'.op \in ops

\* this step is thread t's call of insert
InsertCalled(t) == pc[t] = "idle" /\ pc'[t] \in {"reuse_save", "fresh_save"}

\* this step is thread t's save through the link it popped
ReuseSaved(t) == pc[t] = "reuse_save" /\ pc'[t] # "reuse_save"

\* C1: round trip.  In every reachable state, for every row r that insert
\* stored under a link l and that no update, with_mut_ref or reusing insert
\* has written through since (through l or a link overlapping l), a select(l)
\* that returns returns Ok(r), whatever else was called in between and
\* however many pages were appended.
C1_RoundTrip == \A e \in intact : select(e.link) = OkRow(e.row)

\* an untouched row on page 0, returned by insert, after the page vector
\* has grown and a second link has been returned
C1_Witness ==
    \E e \in intact :
        /\ e.link \in issued
        /\ e.link.page_id = 0
        /\ Len(pages) >= 2
        /\ Cardinality(issued) >= 2

\* C2: concurrent inserts without deletes.  Once all threads have finished,
\* every insert called has returned Ok (row_count counts them all), the
\* links returned are pairwise distinct, and select on each returns its row.
C2_ConcurrentInserts ==
    Quiescent =>
        /\ row_count = MaxInserts - budget
        /\ Cardinality(issued) = MaxInserts - budget
        /\ Cardinality(intact) = MaxInserts - budget
        /\ \A e \in intact : e.link \in issued /\ select(e.link) = OkRow(e.row)

\* C3: delete-then-insert reuse, one thread.  delete(L) leaves L on top of
\* the free stack and no select, with_ref, with_mut_ref or update moves it,
\* so the next insert finds L there; an insert that finds on top a link L
\* insert has returned pops L and changes nothing else; and when its row has
\* the serialized length of L it returns Ok(L), select(L) then returns that
\* row, and the page count, current_page, last_page_id and the write cursor
\* of L's page are what they were when the insert was called.
C3_DeleteThenReuse ==
    [][/\ CallReturned({"delete"})
          => (empty_links' # <<>> /\ Head(empty_links') = ret'.link)
       /\ CallReturned(LinkOps)
          => /\ empty_links' = empty_links
             /\ Len(pages') = Len(pages)
             /\ \A i \in 1..Len(pages) : pages'[i].length = pages[i].length
             /\ UNCHANGED <<current_page, last_page_id>>
       /\ (InsertCalled(1) /\ empty_links # <<>> /\ Head(empty_links) \in issued)
          => /\ pc'[1] = "reuse_save"
             /\ local'[1].link = Head(empty_links)
             /\ UNCHANGED <<pages, current_page, last_page_id>>
       /\ (/\ ReuseSaved(1)
           /\ local[1].link = entry[1].top
           /\ entry[1].top \in issued
           /\ SerLen(local[1].row) = entry[1].top.length)
          => \A L \in {entry[1].top}, row \in {local[1].row} :
             /\ ret' = Ret("insert", "reuse", L, OkLink(L))
             /\ select(L)' = OkRow(row)
             /\ Len(pages') = entry[1].np
             /\ pages'[L.page_id + 1].length = pages[L.page_id + 1].length
             /\ current_page' = entry[1].cp
             /\ last_page_id' = entry[1].lp
      ]_vars

\* insert, delete of its link, insert of another row of that length: the
\* second insert has returned the link and the row is stored under it
C3_Witness ==
    /\ ret.op = "insert"
    /\ ret.path = "reuse"
    /\ ret.res = OkLink(ret.link)
    /\ ret.link \in issued
    /\ budget = MaxSeqOps - 3
    /\ row_count = 1
    /\ select(ret.link) = OkRow(<<2>>)

\* C4: link validity.  Every link insert has returned Ok names a page of
\* the vector, at the return and ever after, and lies within INNER bytes.
C4_LinkValid ==
    \A link \in issued :
        /\ link.page_id < Len(pages)
        /\ link.offset + link.length <= INNER

\* a link returned on an appended page, reaching the last byte of it
C4_Witness ==
    \E link \in issued :
        /\ link.page_id >= 1
        /\ link.offset + link.length = INNER
        /\ ret = Ret("insert", "retry", link, OkLink(link))

\* thread t is inside an insert
InInsert(t) == pc[t] \notin {"idle", "panicked", "deadlocked"}

\* C5: page growth on overflow, one thread.  An insert called with the free
\* stack empty and a row that fits a page but not the space left on page
\* current_page ends by returning Ok with a link at offset 0 of the page
\* after the old current_page, with exactly one page appended and
\* last_page_id and current_page both one larger than at the call.
C5_PageGrowth ==
    [][(/\ InInsert(1)
        /\ ~InInsert(1)'
        /\ entry[1].top = NoLink
        /\ SerLen(local[1].row) > entry[1].free
        /\ SerLen(local[1].row) <= INNER)
       => LET link == PageLink(entry[1].cp + 1, 0, SerLen(local[1].row)) IN
          /\ ret' = Ret("insert", "retry", link, OkLink(link))
          /\ Len(pages') = entry[1].np + 1
          /\ pages'[Len(pages')] =
                 save_row(DataPage_new(entry[1].cp + 1), from_inner(local[1].row)).page
          /\ last_page_id' = entry[1].lp + 1
          /\ current_page' = entry[1].cp + 1
      ]_vars

\* a row of one byte fills the second byte of page 0, then a row of two
\* bytes overflows it and lands at the start of the appended page 1
C5_Witness ==
    /\ ret = Ret("insert", "retry", PageLink(1, 0, 2), OkLink(PageLink(1, 0, 2)))
    /\ Len(pages) = 2
    /\ pages[1].length = 1
    /\ last_page_id = 1
    /\ current_page = 1
    /\ empty_links = <<>>
    /\ budget = MaxSeqOps - 2

\* C6: monotonic page growth.  last_page_id never decreases, the page
\* vector never shrinks and keeps the pages it has, and whenever no thread
\* holds the write lock of add_next_page, pages.len() = last_page_id + 1.
C6_MonotonicGrowth ==
    /\ [](pages_lock.writer = 0 => Len(pages) = last_page_id + 1)
    /\ [][/\ last_page_id' >= last_page_id
          /\ Len(pages') >= Len(pages)
          /\ \A i \in 1..Len(pages) : pages'[i].page_id = pages[i].page_id
         ]_vars

\* two pages have been appended and the write-locked section has been left
C6_Witness ==
    /\ pages_lock.writer = 0
    /\ Len(pages) = 3
    /\ last_page_id = 2
    /\ current_page = 2

\* C7: row_count is a fresh-insert counter.  Whenever no insert is in
\* progress, row_count is the number of inserts whose save_row on page
\* current_page succeeded (fresh path, retry after growth, retry after an
\* InvalidLink fallback); an insert that returns Ok through a recycled link,
\* and every delete, update, select, with_ref and with_mut_ref, leave
\* row_count as it was.
C7_RowCount ==
    /\ [](Quiescent => row_count = fresh_saved)
    /\ [][((\E t \in Threads : ReuseSaved(t)) \/ CallReturned(LinkOps \cup {"delete"}))
          => row_count' = row_count]_vars

\* insert L, delete(L), reuse-insert: the count is what it was before the
\* delete
C7_Witness ==
    /\ Quiescent
    /\ ret.op = "insert"
    /\ ret.path = "reuse"
    /\ ret.res = OkLink(ret.link)
    /\ row_count = 1
    /\ fresh_saved = 1
    /\ budget = MaxOps - 3

\* C8: PageNotFound.  For a link whose page_id >= pages.len(), select,
\* with_ref, with_mut_ref and update return PageNotFound(link.page_id), the
\* closure's result is not returned, and the call leaves every page (bytes
\* and cursor), the free stack, row_count, current_page and last_page_id as
\* they were.
C8_PageNotFound ==
    /\ [](\A link \in LinkArgs :
            link.page_id >= Len(pages) =>
                LET e == Err(PageNotFound(link.page_id)) IN
                /\ select(link) = e
                /\ with_ref(link) = e
                /\ \A v \in 1..2 : with_mut_ref(link, v) = [res |-> e, pages |-> pages]
                /\ \A row \in RowArgs : update(row, link) = [res |-> e, pages |-> pages])
    /\ [][(CallReturned(LinkOps) /\ ret'.link.page_id >= Len(pages))
          => /\ ret'.res = Err(PageNotFound(ret'.link.page_id))
             /\ UNCHANGED <<pages, empty_links, row_count, current_page, last_page_id>>
         ]_vars

\* an update through a link to a page that is not there has returned, after
\* an insert stored a row
C8_Witness ==
    /\ ret.op = "update"
    /\ ret.link.page_id >= Len(pages)
    /\ ret.res = Err(PageNotFound(ret.link.page_id))
    /\ row_count >= 1

\* C9: load_from_file error routing.  A missing file gives Ok with a new
\* empty table; a file that cannot be opened for another reason, or that
\* opens and fails to parse, gives an error and never an empty table.
C9_ErrorRouting ==
    loaded # NotLoaded =>
        /\ file.state = "missing" => loaded = [tag |-> "Ok", table |-> "new"]
        /\ file.state = "unreadable" => loaded.tag = "Err"
        /\ (file.state = "present" /\ parse_file(file).tag = "Err") => loaded.tag = "Err"

\* C10: the retry after PageIsFull never fails for a row that fits a page.
\* In every interleaving of concurrent inserts of rows no longer than INNER,
\* no insert returns PageIsFull.
C10_RetryNeverFull ==
    ~(/\ ret.op = "insert"
      /\ ret.res.tag = "Err"
      /\ ret.res.err.kind = "PageIsFull"
      /\ ret.res.err.required <= INNER)

\* thread t holds a guard on the page vector or on a page
GuardsHeld(t) ==
    \/ pages_lock.readers[t] > 0
    \/ pages_lock.writer = t
    \/ \E i \in DOMAIN page_locks : page_locks[i].writer = t

\* C11: progress.  Under fair scheduling every started insert returns; a
\* thread about to take pages.read() in retry_insert or pages.write() in
\* add_next_page holds no guard of its own, in particular after the
\* InvalidLink fallback; and a thread that has returned holds no guard.
C11_Progress ==
    /\ [](\A t \in Threads : pc[t] \in {"retry", "anp_lock"} => ~GuardsHeld(t))
    /\ [](\A t \in Threads : pc[t] = "idle" => ~GuardsHeld(t))
    /\ \A t \in Threads : InInsert(t) ~> (pc[t] = "idle")

\* thread t's insert popped a link, had it rejected with InvalidLink and is
\* in the retry_insert of line 80
InFallback(t) == pc[t] \in {"retry", "retry_count"} /\ entry[t].top # NoLink

\* C12: InvalidLink recovery on reuse, one thread.  When an insert whose
\* popped link was rejected with InvalidLink returns, for a row no longer than
\* INNER, it returns Ok with a link other than the rejected one under which
\* select returns the row, the rejected link is back on top of the free
\* stack and row_count is one larger.
C12_InvalidLinkRecovery ==
    [][(/\ InFallback(1)
        /\ pc'[1] = "idle"
        /\ SerLen(local[1].row) <= INNER)
       => \A row \in {local[1].row} :
          /\ ret'.op = "insert"
          /\ ret'.res = OkLink(ret'.link)
          /\ ret'.link # entry[1].top
          /\ \A link \in {local[1].link} : ret'.link = link /\ select(link)' = OkRow(row)
          /\ empty_links' # <<>>
          /\ Head(empty_links') = entry[1].top
          /\ row_count' = row_count + 1
      ]_vars

\* C13: double-checked growth.  A call add_next_page(p) that finds
\* p = current_page under the write lock appends exactly one page, page
\* p + 1, and advances last_page_id and current_page by one each; a call
\* that finds p # current_page changes neither the vector nor a counter.
\* So of the threads that saw page p full and all called add_next_page(p),
\* one appends and the others do nothing.
C13_DoubleCheckedGrowth ==
    [][\A t \in Threads :
        /\ (pc[t] = "anp_lock" /\ pc'[t] # "anp_lock" /\ local[t].tried_page # current_page)
           => /\ pc'[t] = "retry"
              /\ UNCHANGED <<pages, last_page_id, current_page, row_count, empty_links>>
        /\ (pc[t] = "anp_lock" /\ pc'[t] # "anp_lock" /\ local[t].tried_page = current_page)
           => /\ pc'[t] = "anp_push"
              /\ last_page_id' = last_page_id + 1
              /\ UNCHANGED <<pages, current_page>>
        /\ (pc[t] = "anp_cur" /\ pc'[t] # "anp_cur")
           => /\ Len(pages) = local[t].tried_page + 2
              /\ pages' = pages
              /\ last_page_id' = local[t].tried_page + 1
              /\ current_page' = local[t].tried_page + 1
              /\ \A u \in Threads \ {t} : pc[u] \notin {"anp_push", "anp_cur"}
      ]_vars

\* both threads saw page 0 full and called add_next_page(0): thread 1 has
\* appended page 1, thread 2 is at the write lock with its stale page
C13_Witness ==
    /\ pc[1] = "retry"
    /\ local[1].tried_page = 0
    /\ local[1].index = 1
    /\ pc[2] = "anp_lock"
    /\ local[2].tried_page = 0
    /\ current_page = 1
    /\ last_page_id = 1
    /\ Len(pages) = 2

\* link names a slot in the written part of a page of the vector
SlotOfPage(link) ==
    /\ link.page_id < Len(pages)
    /\ link.offset + link.length <= pages[link.page_id + 1].length

\* C14: free-stack invariant.  In every reachable state every link on the
\* free stack names a slot in the written part of an existing page, and the
\* link an insert has popped names an existing page when line 72 indexes
\* the vector with it.
C14_FreeStack ==
    /\ \A i \in 1..Len(empty_links) : SlotOfPage(empty_links[i])
    /\ \A t \in Threads : pc[t] = "reuse_save" => local[t].link.page_id < Len(pages)

\* C15: current_page bound.  In every reachable state current_page <=
\* last_page_id, and whenever a thread can take the read lock and read
\* current_page (line 93 of insert, line 131 of retry_insert), the value is
\* an index into the page vector.
C15_CurrentPageBound ==
    /\ current_page <= last_page_id
    /\ \A t \in Threads :
        (pc[t] \in {"fresh_save", "retry"} /\ pages_lock.writer = 0)
        => current_page < Len(pages)

\* after a growth step, one thread is about to read current_page in insert
\* and the other in retry_insert
C15_Witness ==
    /\ pages_lock.writer = 0
    /\ current_page = 1
    /\ \E t, u \in Threads : pc[t] = "fresh_save" /\ pc[u] = "retry"

\* C16: page ids coincide with indices.  In every reachable state the page
\* at index i of the vector was created with page_id i, however the
\* growing inserts interleave.
C16_PageIdIsIndex ==
    \A i \in 1..Len(pages) : pages[i].page_id = i - 1

\* a thread has just pushed the third page and still holds the write lock,
\* the other thread is inside an insert
C16_Witness ==
    /\ Len(pages) = 3
    /\ pages[3].page_id = 2
    /\ \E t, u \in Threads : pc[t] = "anp_cur" /\ t # u /\ InInsert(u)

\* this step is the return of an insert that stored its row by save_row on
\* page current_page
FreshReturned(t) == pc[t] \in {"fresh_count", "retry_count"} /\ pc'[t] = "idle"

\* this step is a delete of a row that is there: its link was returned by
\* insert and is not on the free stack already
LogicalDelete ==
    /\ CallReturned({"delete"})
    /\ ret'.link \in issued
    /\ \A i \in 1..Len(empty_links) : empty_links[i] # ret'.link

\* C17: row_count tracks fresh inserts minus deletes.  It starts at 0, every
\* insert that returns Ok through a save_row on current_page adds one, every
\* delete of a stored row takes one away and no other insert, select,
\* with_ref, with_mut_ref or update changes it, so that once all operations
\* have finished it is the number of successful fresh inserts minus the
\* number of logical deletes.
C17_RowCountMinusDeletes ==
    /\ row_count = 0
    /\ [][/\ (\E t \in Threads : FreshReturned(t)) => row_count' = row_count + 1
          /\ LogicalDelete => row_count' = row_count - 1
          /\ (~(\E t \in Threads : FreshReturned(t)) /\ ~CallReturned({"delete"}))
             => row_count' = row_count
         ]_vars

\* C18: delete is a pure push.  delete(link) returns Ok, leaves link on top
\* of the free stack above what was there, and changes no page (bytes and
\* cursor), nor pages.len(), row_count, current_page or last_page_id; select
\* of the link returns after the delete what it returned before, so the row
\* stays readable until an insert reuses the link.
C18_DeleteIsPush ==
    [][CallReturned({"delete"})
       => /\ ret'.res = OkUnit
          /\ empty_links' # <<>>
          /\ Head(empty_links') = ret'.link
          /\ Tail(empty_links') = empty_links
          /\ UNCHANGED <<pages, row_count, current_page, last_page_id, intact>>
          /\ \A link \in LinkArgs : ret'.link = link => select(link)' = select(link)
      ]_vars

\* a stored row's link has been deleted: it is on top of the free stack and
\* select still returns the row
C18_Witness ==
    /\ ret.op = "delete"
    /\ ret.res = OkUnit
    /\ empty_links # <<>>
    /\ Head(empty_links) = ret.link
    /\ \E e \in intact : e.link = ret.link /\ select(ret.link) = OkRow(e.row)

\* byte b (1-based) of the page lies in the slot of link
InSlot(link, b) == b > link.offset /\ b <= link.offset + link.length

\* C19: in-place update.  An update(row, link) that returns Ok makes
\* select(link) return row and changes nothing else: the cursor of the page
\* and its bytes outside the slot, every other page, pages.len(), row_count,
\* current_page, last_page_id and the free stack are as before the call.
C19_InPlaceUpdate ==
    [][(CallReturned({"update"}) /\ ret'.res.tag = "OkLink") =>
       \A link \in LinkArgs, row \in RowArgs, t \in Threads :
        (/\ ret'.link = link
         /\ update(row, link).res.tag = "OkLink"
         /\ Update(t, row, link))
        => /\ ret' = Ret("update", "none", link, OkLink(link))
           /\ select(link)' = OkRow(row)
           /\ Len(pages') = Len(pages)
           /\ \A i \in 1..Len(pages) :
                /\ pages'[i].length = pages[i].length
                /\ pages'[i].page_id = pages[i].page_id
                /\ \A b \in 1..INNER :
                     (i # link.page_id + 1 \/ ~InSlot(link, b))
                     => pages'[i].data[b] = pages[i].data[b]
           /\ UNCHANGED <<row_count, current_page, last_page_id, empty_links>>
      ]_vars

\* an update has overwritten the first of two rows on a page: select
\* returns the new row through its link and the old row through the other
C19_Witness ==
    /\ ret = Ret("update", "none", ret.link, OkLink(ret.link))
    /\ select(ret.link) = OkRow(<<2>>)
    /\ ret.link.offset = 0
    /\ \E e \in intact :
        /\ e.link.page_id = ret.link.page_id
        /\ e.link.offset = ret.link.length
        /\ select(e.link) = OkRow(<<1>>)

\* the pages of all secondary indexes of a space
RECURSIVE IndexPageCount(_)
IndexPageCount(indexes) ==
    IF indexes = <<>> THEN 0 ELSE Len(Head(indexes)) + IndexPageCount(Tail(indexes))

\* C20: snapshot page_count.  In the Space into_space returns,
\* info.page_count is the number of pages of the space: the SpaceInfo page,
\* the primary-index pages, the secondary-index pages and the data pages.
C20_PageCount ==
    space # NoSpace =>
        space.info.page_count =
            1 + Len(space.primary_index) + IndexPageCount(space.indexes) + Len(space.data)

\* the last page of a non-empty section
LastPage(section) == section[Len(section)]

\* C21: snapshot chaining.  In the Space into_space returns, the first page
\* of the primary index has previous_id = the SpaceInfo page's id, the first
\* secondary-index page has previous_id = the last primary-index page's id,
\* and the first data page has previous_id = the id of the last
\* secondary-index page, or of the last primary-index page when there is no
\* secondary-index page; primary_key_intervals and data_intervals each hold
\* exactly one Interval, (first page_id, last page_id) of their section.
C21_SnapshotChaining ==
    space # NoSpace =>
        /\ space.primary_index # <<>>
        /\ space.data # <<>>
        /\ space.primary_index[1].previous_id = space.info.header.page_id
        /\ IndexPagesOf(space.indexes) # <<>>
           => /\ IndexPagesOf(space.indexes)[1].previous_id = LastPage(space.primary_index).page_id
              /\ space.data[1].previous_id = LastPage(IndexPagesOf(space.indexes)).page_id
        /\ IndexPagesOf(space.indexes) = <<>>
           => space.data[1].previous_id = LastPage(space.primary_index).page_id
        /\ space.info.primary_key_intervals =
              <<Interval(space.primary_index[1].page_id, LastPage(space.primary_index).page_id)>>
        /\ space.info.data_intervals =
              <<Interval(space.data[1].page_id, LastPage(space.data).page_id)>>

\* a snapshot with two secondary indexes between a primary index and a data
\* section of several pages each
C21_Witness ==
    /\ space # NoSpace
    /\ Len(space.primary_index) = 2
    /\ Len(space.indexes) = 2
    /\ Len(space.data) = 2
    /\ space.data[1].previous_id = LastPage(space.indexes[2]).page_id
    /\ space.data[1].previous_id > LastPage(space.primary_index).page_id

\* every page of a space in the order the claim gives: the SpaceInfo page,
\* the primary-index pages, the secondary-index pages, the data pages
WriteOrder ==
    <<space.info.header>> \o space.primary_index \o IndexPagesOf(space.indexes) \o space.data

IsWhole(page) == page.page_type # "Torn"

\* the pages of the file that were written whole
WholeWritten == SelectSeq(persisted.written, IsWhole)

\* C22: persist write order.  At every moment of persist the pages written
\* whole to the file are a prefix of: the SpaceInfo page, the primary-index
\* pages in vector order, the secondary-index pages, the data pages in
\* vector order; a persist that returns Ok has written all of them.  When a
\* page write fails persist returns that error, the pages written before it
\* stay in the file (followed at most by a part of the failed page), and no
\* page is written afterwards.
C22_PersistOrder ==
    /\ [](space # NoSpace =>
            /\ Len(WholeWritten) <= Len(WriteOrder)
            /\ WholeWritten = SubSeq(WriteOrder, 1, Len(WholeWritten))
            /\ \A k \in 1..Len(persisted.written) :
                 ~IsWhole(persisted.written[k])
                 => k = Len(persisted.written) /\ persisted.res = IoError
            /\ persisted.res = OkUnit => persisted.written = WriteOrder
            /\ persisted.res # NoResult => persisted.stage = "done")
    /\ [][/\ (persisted.res = NoResult /\ persisted'.res = IoError)
             => /\ persisted'.stage = "done"
                /\ SelectSeq(persisted'.written, IsWhole) = WholeWritten
          /\ persisted.res # NoResult => persisted' = persisted
          /\ Len(SelectSeq(persisted'.written, IsWhole)) <= Len(WholeWritten) + 1
         ]_vars

\* a write of a data page has failed after the SpaceInfo page, the
\* primary-index pages, the pages of two secondary indexes and one data page
\* were written
C22_Witness ==
    /\ space # NoSpace
    /\ Len(space.indexes) = 2
    /\ Len(space.data) >= 2
    /\ persisted.res = IoError
    /\ persisted.stage = "done"
    /\ Len(WholeWritten) = 1 + Len(space.primary_index) + Len(IndexPagesOf(space.indexes)) + 1
    /\ WholeWritten[Len(WholeWritten)].page_type = "Data"

\* thread t has popped a recycled link and not yet returned it or pushed it
\* back (lines 69-79)
HoldsPopped(t) == pc[t] \in {"reuse_save", "reuse_push"}

\* thread t has saved its row at a new link and not yet returned it
\* (lines 99-104, 134-140)
SavedFresh(t) == pc[t] \in {"fresh_count", "retry_count"}

\* the links on the free stack
OnStack == {empty_links[k] : k \in 1..Len(empty_links)}

\* C23: no slot aliasing.  With callers that delete only links insert
\* returned, each at most once per issuance, in every reachable state: two
\* different live links (returned and not deleted since) never overlap; no
\* live link is on the free stack; no link is on the free stack twice; a
\* link an insert has popped is neither live nor on the stack, and two
\* inserts never hold the same popped link; a link an insert is about to
\* return from the append path overlaps no live link and no link another
\* insert holds.
C23_NoSlotAliasing ==
    /\ \A a, b \in live : a # b => ~Overlap(a, b)
    /\ live \cap OnStack = {}
    /\ \A j, k \in 1..Len(empty_links) : j # k => empty_links[j] # empty_links[k]
    /\ \A t \in Threads :
         HoldsPopped(t)
         => /\ local[t].link \notin live
            /\ \A a \in live : ~Overlap(a, local[t].link)
            /\ \A u \in Threads \ {t} : HoldsPopped(u) => local[u].link # local[t].link
    /\ \A t \in Threads :
         (pc[t] = "reuse_save") => local[t].link \notin OnStack
    /\ \A t \in Threads :
         SavedFresh(t)
         => /\ \A a \in live : ~Overlap(a, local[t].link)
            /\ \A u \in Threads \ {t} :
                 (HoldsPopped(u) \/ SavedFresh(u)) => ~Overlap(local[u].link, local[t].link)

\* two inserts run at once on one page: one holds the recycled link of a
\* deleted row, the other has appended its row and not yet returned
C23_Witness ==
    /\ pc[1] = "reuse_save"
    /\ local[1].link \in issued \ live
    /\ SavedFresh(2)
    /\ local[2].link.page_id = local[1].link.page_id
    /\ local[2].link # local[1].link

====
